---- MODULE Spec2Model ----
(***************************************************************************)
(* The cancellable task pipeline of the Audio Extractor backend:           *)
(* main.py (the /separate, /cancel and /progress handlers over the         *)
(* process-wide PROGRESS_STORE) and audio_processor.py (separate_audio     *)
(* with its tqdm hook into the separator).                                 *)
(*                                                                         *)
(* Execution contexts.  The handlers are coroutines of one asyncio event   *)
(* loop: the code between two awaits of a handler is one atomic step with  *)
(* respect to the other handlers.  separate_audio runs in a thread of the  *)
(* default executor, concurrently with the event loop and with the         *)
(* separate_audio calls of other requests; its accesses to shared state    *)
(* (PROGRESS_STORE, demucs.apply.tqdm, the filesystem) are separate steps. *)
(*                                                                         *)
(* The two numeric stages are functions of their arguments and have        *)
(* specifications of their own: the BPM planner of mixing.py (PlannerSpec) *)
(* and the key detection of analysis.py (DetectorSpec).                    *)
(*                                                                         *)
(* Two parts outside the pipeline have specifications of their own as      *)
(* well: the Streamlit page of app.py, whose script is rerun on every      *)
(* interaction over one st.session_state (AppSpec), and the GET /download  *)
(* handler of main.py, a function of its two query values (DownloadSpec).  *)
(***************************************************************************)
EXTENDS Integers, FiniteSets, Sequences, TLC

\* ----------------------------------------------------------------- bounds
\* The overlapping /separate requests (each one run of the endpoint).
Runs == {"r1", "r2"}
\* task_id values of the requests; "default" is the fallback of main.py:72.
TaskIds == {"default", "t1"}
\* The safe_filename values (sanitised name + second of arrival) that occur.
Paths == {"f1", "f2"}
\* MAX_FILE_SIZE counted in upload chunks (main.py:27 has 200 chunks of 1 MB).
MAX_FILE_SIZE == 1
\* Largest total of a separator progress bar.
MaxTotal == 2
\* The uploads analysis.analyze_track cannot read (librosa raises on them).
Unreadable == {"f2"}
\* Stems the model produces (len(model.sources)).
NumStems == 1

VARIABLES
    PROGRESS_STORE,      \* main.py:35: task id -> record; absent ids not in DOMAIN
    demucs_apply_tqdm,   \* the process-global demucs.apply.tqdm: "std" or the run whose shim is installed
    input_files,         \* files existing under temp_inputs/
    output_dirs,         \* directories existing under processed_tracks/ (named by the input's stem)
    pc,                  \* per run: position of the endpoint coroutine / its worker thread
    outcome,             \* per run: what the request answered with
    task_id,             \* per run: the task_id parameter after the fallback
    input_path,          \* per run: input_path (None before main.py:96)
    file_size,           \* per run: file_size of the upload loop, in chunks
    original_tqdm_val,   \* per run: audio_processor.py:79
    bar,                 \* per run: the CustomTqdm instance apply_model iterates: shim, n, total
    stems,               \* per run: stems written by the save loop
    detected_key,        \* per run: detected_key (main.py:125, 128); None before the analysis
    wasted,              \* per run (history): units of work the running request did while its own record said cancelled
    progress_response,   \* the last GET /progress: the id asked for and the body of the answer
    cancelAt,            \* per run (history): status of the run's record when a cancel first hit it
    last_cancel,         \* history: the last POST /cancel: what it found under its id, and its answer
    planner,             \* mixing.py: the arguments of a call of the BPM planner and what it returned
    detector,            \* analysis.py: the chroma profile of a key detection, its scores and its label
    session_state,       \* app.py: st.session_state of one browser session
    page,                \* app.py: what the last run of the script rendered, and for which upload
    download             \* main.py: the last GET /download: its query values and its answer

vars == <<PROGRESS_STORE, demucs_apply_tqdm, input_files, output_dirs, pc, outcome,
          task_id, input_path, file_size, original_tqdm_val, bar, stems, detected_key,
          wasted, progress_response, cancelAt, last_cancel, planner, detector,
                   session_state, page, download>>

None == "None"
NoBar == [shim |-> None, n |-> 0, total |-> 0]
NoCancel == [found |-> None, answer |-> None]
NoResponse == [id |-> None, progress |-> 0, status |-> None]
NoPlan == [step |-> None]
NoDetection == [step |-> None]
Absent == "Absent"
\* st.session_state of a new browser session: no key is set.
NoSession ==
    [processed_drums |-> Absent, analysis_results |-> Absent, current_mix |-> Absent,
     input_filename |-> Absent, local_path |-> Absent, stems |-> Absent,
     active_player_html |-> Absent]
NoPage == [uploaded_file |-> None, error |-> None, key |-> None, player |-> None,
           downloads |-> None]
NoDownload == [step |-> None, track |-> << >>, file |-> << >>, status |-> 0, path |-> None]
\* The pages and requests outside the pipeline have not been used.
FrontendIdle == session_state = NoSession /\ page = NoPage /\ download = NoDownload

\* Restriction of the store to the ids other than id (del PROGRESS_STORE[id]).
Without(store, id) == [k \in DOMAIN store \ {id} |-> store[k]]

\* Mutant of With: PROGRESS_STORE.setdefault(id, rec), a record already under id
\* is kept.
With_setdefault(store, id, rec) ==
    [k \in DOMAIN store \cup {id} |-> IF k \in DOMAIN store THEN store[k] ELSE rec]

\* PROGRESS_STORE[id] = rec
With(store, id, rec) == [k \in DOMAIN store \cup {id} |-> IF k = id THEN rec ELSE store[k]]

Init ==
    /\ PROGRESS_STORE = << >>
    /\ demucs_apply_tqdm = "std"
    /\ input_files = {}
    /\ output_dirs = {}
    /\ pc = [r \in Runs |-> "idle"]
    /\ outcome = [r \in Runs |-> None]
    /\ task_id = [r \in Runs |-> None]
    /\ input_path = [r \in Runs |-> None]
    /\ file_size = [r \in Runs |-> 0]
    /\ original_tqdm_val = [r \in Runs |-> None]
    /\ bar = [r \in Runs |-> NoBar]
    /\ stems = [r \in Runs |-> 0]
    /\ detected_key = [r \in Runs |-> None]
    /\ wasted = [r \in Runs |-> 0]
    /\ progress_response = NoResponse
    /\ cancelAt = [r \in Runs |-> None]
    /\ last_cancel = NoCancel
    /\ planner = NoPlan
    /\ detector = NoDetection
    /\ FrontendIdle

\* ------------------------------------------------- main.py: the registry
\* A fresh record (main.py:83); owner is history: the run that registered it.
NewRecord(r) == [progress |-> 0, status |-> "uploading", owner |-> r]

\* main.py:43-46, GET /progress/{task_id}: the record, or the default shape.
get_progress(id) ==
    IF id \in DOMAIN PROGRESS_STORE
    THEN [progress |-> PROGRESS_STORE[id].progress, status |-> PROGRESS_STORE[id].status]
    ELSE [progress |-> 0, status |-> "pending"]

\* Mutant of get_progress_request: the default is stored under the id
\* (setdefault in place of get).
get_progress_request_setdefault(id) ==
    /\ progress_response' = [id |-> id, progress |-> get_progress(id).progress,
                                        status |-> get_progress(id).status]
    /\ PROGRESS_STORE' = IF id \in DOMAIN PROGRESS_STORE THEN PROGRESS_STORE
                         ELSE With(PROGRESS_STORE, id,
                                   [progress |-> 0, status |-> "pending", owner |-> None])
    /\ UNCHANGED <<demucs_apply_tqdm, input_files, output_dirs, pc, outcome, task_id,
                   input_path, file_size, original_tqdm_val, bar, stems, detected_key,
                   wasted, cancelAt, last_cancel, planner, detector,
                   session_state, page, download>>

\* main.py:43-46, GET /progress/{task_id} served: the answer goes out, nothing
\* else happens.
get_progress_request(id) ==
    /\ progress_response' = [id |-> id, progress |-> get_progress(id).progress,
                                        status |-> get_progress(id).status]
    /\ UNCHANGED <<PROGRESS_STORE, demucs_apply_tqdm, input_files, output_dirs, pc, outcome,
                   task_id, input_path, file_size, original_tqdm_val, bar, stems,
                   detected_key, wasted, cancelAt, last_cancel, planner, detector,
                   session_state, page, download>>

\* PROGRESS_STORE.get(task_id, {}).get("status") == "cancelled"
\* (main.py:103, 116, 131 and check_cancelled, main.py:143-146).
check_cancelled(id) ==
    id \in DOMAIN PROGRESS_STORE /\ PROGRESS_STORE[id].status = "cancelled"

\* The record under run r's task id is the one r registered and says cancelled:
\* a cancel request has taken effect on the run's task.
own_cancelled(r) ==
    check_cancelled(task_id[r]) /\ PROGRESS_STORE[task_id[r]].owner = r

\* wasted, after run r has completed one more unit of work of its stage (an
\* upload chunk written, a separator tick counted, a stem written); it counts
\* to "more than one".
count_unit(r) ==
    [wasted EXCEPT ![r] = IF own_cancelled(r) /\ @ < 2 THEN @ + 1 ELSE @]

\* wasted and detected_key, when run r answers with an error: the request is over.
request_over(r) ==
    /\ wasted' = [wasted EXCEPT ![r] = 0]
    /\ detected_key' = [detected_key EXCEPT ![r] = None]

\* The store after main.py:52.
cancel_store(id) ==
    [PROGRESS_STORE EXCEPT ![id].status = "cancelled"]

\* Mutant of cancel_response: a request that finds the task already Cancelled is
\* answered like one that finds no task.
cancel_response_if_effect(id) ==
    IF id \in DOMAIN PROGRESS_STORE /\ PROGRESS_STORE[id].status # "cancelled"
    THEN "Cancellation requested" ELSE "Task not found"

\* The answer of POST /cancel/{task_id} (main.py:51-54).
cancel_response(id) ==
    IF id \in DOMAIN PROGRESS_STORE THEN "Cancellation requested" ELSE "Task not found"

\* What a /cancel request finds under id: the status of the record, or "absent".
found_status(id) ==
    IF id \in DOMAIN PROGRESS_STORE THEN PROGRESS_STORE[id].status ELSE "absent"

\* Mutant of cancel_task: the separator is called on the event loop
\* (separate_audio(...) instead of run_in_executor), so no /cancel is handled
\* while a request is inside separate_audio.
cancel_task_blocked(id) ==
    /\ \A r \in Runs : pc[r] \notin {"sep_load", "sep_install", "sep_apply", "sep_bar",
                                      "sep_callback", "sep_write", "sep_save"}
    /\ IF id \in DOMAIN PROGRESS_STORE
       THEN /\ PROGRESS_STORE' = cancel_store(id)
            /\ cancelAt' = [cancelAt EXCEPT ![PROGRESS_STORE[id].owner] =
                                IF @ = None /\ PROGRESS_STORE[id].status # "cancelled"
                                THEN PROGRESS_STORE[id].status ELSE @]
       ELSE UNCHANGED <<PROGRESS_STORE, cancelAt>>
    /\ last_cancel' = [found |-> found_status(id), answer |-> cancel_response(id)]
    /\ UNCHANGED <<demucs_apply_tqdm, input_files, output_dirs, pc, outcome, task_id,
                   input_path, file_size, original_tqdm_val, bar, stems,
                   detected_key, wasted, progress_response, planner, detector,
                   session_state, page, download>>

\* main.py:48-54, POST /cancel/{task_id}.  The history variables record the
\* request and its answer (last_cancel) and, for the run that owns the record,
\* the status the first cancel found (cancelAt).
cancel_task(id) ==
    /\ IF id \in DOMAIN PROGRESS_STORE
       THEN /\ PROGRESS_STORE' = cancel_store(id)
            /\ cancelAt' = [cancelAt EXCEPT ![PROGRESS_STORE[id].owner] =
                                IF @ = None /\ PROGRESS_STORE[id].status # "cancelled"
                                THEN PROGRESS_STORE[id].status ELSE @]
       ELSE UNCHANGED <<PROGRESS_STORE, cancelAt>>
    /\ last_cancel' = [found |-> found_status(id), answer |-> cancel_response(id)]
    /\ UNCHANGED <<demucs_apply_tqdm, input_files, output_dirs, pc, outcome, task_id,
                   input_path, file_size, original_tqdm_val, bar, stems,
                   detected_key, wasted, progress_response, planner, detector,
                   session_state, page, download>>

\* ------------------------------------- main.py: the /separate exception handlers
\* Mutant of remove_task: the handlers leave the record in the registry.
remove_task_never(id) == PROGRESS_STORE

\* del PROGRESS_STORE[task_id] if present (main.py:183-184, 201-202, 227-228, 231-232).
remove_task(id) == Without(PROGRESS_STORE, id)

\* main.py:204-222: the files left after the cancellation cleanup of run r.
cleanup_input_files(r) == input_files \ {input_path[r]}
cleanup_output_dirs(r) == output_dirs \ {input_path[r]}

\* Mutant of on_cancellation: the deletions are not wrapped in try/except, an
\* unlink that raises leaves the handler and the request answers 500.
on_cancellation_escalates(r, msg) ==
    /\ PROGRESS_STORE' = remove_task(task_id[r])
    /\ \/ /\ input_files' = cleanup_input_files(r)
          /\ output_dirs' = cleanup_output_dirs(r)
          /\ outcome' = [outcome EXCEPT ![r] = msg]
       \/ /\ input_path[r] \in input_files
          /\ UNCHANGED <<input_files, output_dirs>>
          /\ outcome' = [outcome EXCEPT ![r] = "500"]
    /\ pc' = [pc EXCEPT ![r] = "done"]

\* main.py:199-224: except CancellationException; msg is the exception's message.
\* The record is deleted if present; the input file and the output directory
\* are deleted if they exist, and a deletion that raises is printed and leaves
\* the entry where it is (main.py:206-210, 218-222).  Answers 499 "Task cancelled".
on_cancellation(r, msg) ==
    /\ PROGRESS_STORE' = remove_task(task_id[r])
    /\ input_files' \in {cleanup_input_files(r), input_files}
    /\ output_dirs' \in {cleanup_output_dirs(r), output_dirs}
    /\ pc' = [pc EXCEPT ![r] = "done"]
    /\ outcome' = [outcome EXCEPT ![r] = msg]

\* main.py:226-229: except HTTPException (the 413 of the upload loop); the
\* exception is raised again and answers 413.
on_http_exception(r) ==
    /\ PROGRESS_STORE' = remove_task(task_id[r])
    /\ pc' = [pc EXCEPT ![r] = "done"]
    /\ outcome' = [outcome EXCEPT ![r] = "413"]

\* main.py:230-235: except Exception; answers 500.
on_exception(r) ==
    /\ PROGRESS_STORE' = remove_task(task_id[r])
    /\ pc' = [pc EXCEPT ![r] = "done"]
    /\ outcome' = [outcome EXCEPT ![r] = "500"]
    /\ UNCHANGED <<input_files, output_dirs>>

\* PROGRESS_STORE[task_id]["status"] = status (main.py:119, 135); KeyError when
\* the record is gone.
set_status(id, status) == [PROGRESS_STORE EXCEPT ![id].status = status]

\* ----------------------------------------- main.py: the /separate endpoint
\* Mutant of reject_content_length: the Content-Length test made inside the try
\* block, so that the HTTPException handler deletes the record under the id of
\* the request.
reject_content_length_inside_try(r) ==
    /\ pc[r] = "idle"
    /\ pc' = [pc EXCEPT ![r] = "done"]
    /\ outcome' = [outcome EXCEPT ![r] = "413 content-length"]
    /\ \E id \in TaskIds : PROGRESS_STORE' = Without(PROGRESS_STORE, id)
    /\ UNCHANGED <<demucs_apply_tqdm, input_files, output_dirs, task_id,
                   input_path, file_size, original_tqdm_val, bar, stems, cancelAt, last_cancel,
                   detected_key, wasted, progress_response, planner, detector,
                   session_state, page, download>>

\* main.py:74-77: the declared Content-Length exceeds the limit; 413 before the
\* try block, nothing registered.
reject_content_length(r) ==
    /\ pc[r] = "idle"
    /\ pc' = [pc EXCEPT ![r] = "done"]
    /\ outcome' = [outcome EXCEPT ![r] = "413 content-length"]
    /\ UNCHANGED <<PROGRESS_STORE, demucs_apply_tqdm, input_files, output_dirs, task_id,
                   input_path, file_size, original_tqdm_val, bar, stems, cancelAt, last_cancel,
                   detected_key, wasted, progress_response, planner, detector,
                   session_state, page, download>>

\* main.py:70-106: register the task, open the input file, first pass of the
\* loop head, up to the first await file.read().
start_task(r, id, path) ==
    /\ pc[r] = "idle"
    /\ task_id' = [task_id EXCEPT ![r] = id]
    /\ input_path' = [input_path EXCEPT ![r] = path]
    /\ PROGRESS_STORE' = With(PROGRESS_STORE, id, NewRecord(r))
    /\ input_files' = input_files \cup {path}
    /\ pc' = [pc EXCEPT ![r] = "reading"]
    /\ UNCHANGED <<demucs_apply_tqdm, output_dirs, outcome, file_size,
                   original_tqdm_val, bar, stems, cancelAt, last_cancel,
                   detected_key, wasted, progress_response, planner, detector,
                   session_state, page, download>>

\* Mutant of over_limit: a file of exactly the limit is refused too.
over_limit_at(size) == size >= MAX_FILE_SIZE

\* main.py:110: if file_size > MAX_FILE_SIZE
over_limit(size) == size > MAX_FILE_SIZE

\* main.py:106-113 then 101-104: file.read() returned a non-empty chunk.  Over
\* the limit the partial file is unlinked (main.py:111) and the 413 raised;
\* otherwise the chunk is written and the loop head checks for cancellation.
read_chunk(r) ==
    /\ pc[r] = "reading"
    /\ IF over_limit(file_size[r] + 1)
       THEN /\ input_files' = input_files \ {input_path[r]}
            /\ on_http_exception(r)
            /\ file_size' = [file_size EXCEPT ![r] = 0]
            /\ request_over(r)
            /\ UNCHANGED output_dirs
       ELSE IF check_cancelled(task_id[r])
            THEN /\ on_cancellation(r, "Cancelled during upload")
                 /\ file_size' = [file_size EXCEPT ![r] = 0]
                 /\ request_over(r)
            ELSE /\ file_size' = [file_size EXCEPT ![r] = @ + 1]
                 /\ wasted' = count_unit(r)
                 /\ UNCHANGED <<PROGRESS_STORE, input_files, output_dirs, pc, outcome,
                                detected_key>>
    /\ UNCHANGED <<demucs_apply_tqdm, task_id, input_path,
                   original_tqdm_val, bar, stems, cancelAt, last_cancel, progress_response, planner, detector,
                   session_state, page, download>>

\* Mutant of read_eof: the checkpoint of main.py:116-117 is missing.
read_eof_unchecked(r) ==
    /\ pc[r] = "reading"
    /\ IF task_id[r] \notin DOMAIN PROGRESS_STORE
       THEN on_exception(r) /\ request_over(r)
       ELSE /\ PROGRESS_STORE' = set_status(task_id[r], "analyzing")
            /\ pc' = [pc EXCEPT ![r] = "analyzing"]
            /\ UNCHANGED <<input_files, output_dirs, outcome, detected_key, wasted>>
    /\ file_size' = [file_size EXCEPT ![r] = 0]
    /\ UNCHANGED <<demucs_apply_tqdm, task_id, input_path,
                   original_tqdm_val, bar, stems, cancelAt, last_cancel, progress_response, planner, detector,
                   session_state, page, download>>

\* main.py:107-108, 115-125: file.read() returned b"": the upload is complete.
read_eof(r) ==
    /\ pc[r] = "reading"
    /\ IF check_cancelled(task_id[r])
       THEN on_cancellation(r, "Cancelled after upload") /\ request_over(r)
       ELSE IF task_id[r] \notin DOMAIN PROGRESS_STORE
            THEN on_exception(r) /\ request_over(r)
            ELSE /\ PROGRESS_STORE' = set_status(task_id[r], "analyzing")
                 /\ pc' = [pc EXCEPT ![r] = "analyzing"]
                 /\ UNCHANGED <<input_files, output_dirs, outcome, detected_key, wasted>>
    /\ file_size' = [file_size EXCEPT ![r] = 0]
    /\ UNCHANGED <<demucs_apply_tqdm, task_id, input_path,
                   original_tqdm_val, bar, stems, cancelAt, last_cancel, progress_response, planner, detector,
                   session_state, page, download>>

\* analysis.py:45-58: analyze_track raises FileNotFoundError when the file is
\* gone, and librosa raises on an upload it cannot read.
analysis_raises(path) == path \notin input_files \/ path \in Unreadable

\* main.py:123-128: the key the endpoint goes on with (the error is swallowed).
key_after_analysis(path) == IF analysis_raises(path) THEN "Unknown" ELSE "Key"

\* Mutant of analysis_done: without the try/except of main.py:123-128 the error
\* of analyze_track reaches the except Exception clause of the endpoint.
analysis_done_unguarded(r) ==
    /\ pc[r] = "analyzing"
    /\ IF analysis_raises(input_path[r]) \/ task_id[r] \notin DOMAIN PROGRESS_STORE
       THEN on_exception(r) /\ request_over(r)
       ELSE IF check_cancelled(task_id[r])
            THEN on_cancellation(r, "Cancelled after analysis") /\ request_over(r)
            ELSE /\ detected_key' = [detected_key EXCEPT ![r] = key_after_analysis(input_path[r])]
                 /\ PROGRESS_STORE' = set_status(task_id[r], "separating")
                 /\ pc' = [pc EXCEPT ![r] = "sep_load"]
                 /\ UNCHANGED <<input_files, output_dirs, outcome, wasted>>
    /\ UNCHANGED <<demucs_apply_tqdm, task_id, input_path, file_size,
                   original_tqdm_val, bar, stems, cancelAt, last_cancel, progress_response, planner, detector,
                   session_state, page, download>>

\* main.py:123-148: the executor future of analyze_track is done; the key is
\* kept, the checkpoint passed and the separation submitted.
analysis_done(r) ==
    /\ pc[r] = "analyzing"
    /\ IF check_cancelled(task_id[r])
       THEN on_cancellation(r, "Cancelled after analysis") /\ request_over(r)
       ELSE IF task_id[r] \notin DOMAIN PROGRESS_STORE
            THEN on_exception(r) /\ request_over(r)
            ELSE /\ detected_key' = [detected_key EXCEPT ![r] = key_after_analysis(input_path[r])]
                 /\ PROGRESS_STORE' = set_status(task_id[r], "separating")
                 /\ pc' = [pc EXCEPT ![r] = "sep_load"]
                 /\ UNCHANGED <<input_files, output_dirs, outcome, wasted>>
    /\ UNCHANGED <<demucs_apply_tqdm, task_id, input_path, file_size,
                   original_tqdm_val, bar, stems, cancelAt, last_cancel, progress_response, planner, detector,
                   session_state, page, download>>

\* Mutant of on_success: the record is left in the registry.
on_success_keeps_record(r) ==
    /\ input_files' = input_files \ {input_path[r]}
    /\ pc' = [pc EXCEPT ![r] = "done"]
    /\ outcome' = [outcome EXCEPT ![r] = "success"]
    /\ UNCHANGED <<PROGRESS_STORE, output_dirs>>

\* main.py:160-197: separate_audio returned; the success answer.
on_success(r) ==
    /\ PROGRESS_STORE' = remove_task(task_id[r])
    /\ input_files' = input_files \ {input_path[r]}
    /\ pc' = [pc EXCEPT ![r] = "done"]
    /\ outcome' = [outcome EXCEPT ![r] = "success"]
    /\ UNCHANGED output_dirs

\* main.py:148-158 resumed: the executor future of separate_audio is done.
separation_done(r) ==
    /\ pc[r] \in {"sep_ok", "sep_cancelled", "sep_error"}
    /\ CASE pc[r] = "sep_ok" -> on_success(r)
         [] pc[r] = "sep_cancelled" -> on_cancellation(r, "Task cancelled by user")
         [] pc[r] = "sep_error" -> on_exception(r)
    /\ IF pc[r] = "sep_ok"
       THEN /\ wasted' = [wasted EXCEPT ![r] = 0]
            /\ UNCHANGED detected_key
       ELSE request_over(r)
    /\ UNCHANGED <<demucs_apply_tqdm, task_id, input_path, file_size,
                   original_tqdm_val, bar, stems, cancelAt, last_cancel, progress_response, planner, detector,
                   session_state, page, download>>

\* ------------------------------- audio_processor.py: separate_audio (worker thread)
\* audio_processor.py:130-133, the finally clause around apply_model: the value
\* saved at line 79 is put back.
restore_tqdm(r) == original_tqdm_val[r]

\* separate_audio is left (returned or raised) with result res; its locals die.
leave_separate_audio(r, res) ==
    /\ pc' = [pc EXCEPT ![r] = res]
    /\ original_tqdm_val' = [original_tqdm_val EXCEPT ![r] = None]
    /\ bar' = [bar EXCEPT ![r] = NoBar]
    /\ stems' = [stems EXCEPT ![r] = 0]

\* audio_processor.py:45-79: model and audio are loaded, then the current
\* demucs.apply.tqdm is saved.
separate_audio_load(r) ==
    /\ pc[r] = "sep_load"
    /\ original_tqdm_val' = [original_tqdm_val EXCEPT ![r] = demucs_apply_tqdm]
    /\ pc' = [pc EXCEPT ![r] = "sep_install"]
    /\ UNCHANGED <<PROGRESS_STORE, demucs_apply_tqdm, input_files, output_dirs, outcome,
                   task_id, input_path, file_size, bar, stems, cancelAt, last_cancel,
                   detected_key, wasted, progress_response, planner, detector,
                   session_state, page, download>>

\* audio_processor.py:46-67: get_model or sf.read raises before the hook is touched.
separate_audio_load_fails(r) ==
    /\ pc[r] = "sep_load"
    /\ leave_separate_audio(r, "sep_error")
    /\ UNCHANGED <<PROGRESS_STORE, demucs_apply_tqdm, input_files, output_dirs, outcome,
                   task_id, input_path, file_size, cancelAt, last_cancel,
                   detected_key, wasted, progress_response, planner, detector,
                   session_state, page, download>>

\* audio_processor.py:120-124: the shim carrying this run's callbacks is installed.
install_shim(r) ==
    /\ pc[r] = "sep_install"
    /\ demucs_apply_tqdm' = r
    /\ pc' = [pc EXCEPT ![r] = "sep_apply"]
    /\ UNCHANGED <<PROGRESS_STORE, input_files, output_dirs, outcome, task_id, input_path,
                   file_size, original_tqdm_val, bar, stems, cancelAt, last_cancel,
                   detected_key, wasted, progress_response, planner, detector,
                   session_state, page, download>>

\* audio_processor.py:112-118 called from apply_model (line 127): the separator
\* asks whatever demucs.apply.tqdm holds now for a progress bar over total chunks
\* (total = 0: unknown).  The bar carries the callbacks of the shim that made it.
open_bar(r, total) ==
    /\ pc[r] = "sep_apply"
    /\ bar' = [bar EXCEPT ![r] = [shim |-> demucs_apply_tqdm, n |-> 0, total |-> total]]
    /\ pc' = [pc EXCEPT ![r] = "sep_bar"]
    /\ UNCHANGED <<PROGRESS_STORE, demucs_apply_tqdm, input_files, output_dirs, outcome,
                   task_id, input_path, file_size, original_tqdm_val, stems, cancelAt, last_cancel,
                   detected_key, wasted, progress_response, planner, detector,
                   session_state, page, download>>

\* The totals of the bars the separator opens: unknown (0), or MaxTotal chunks.
Totals == {0, MaxTotal}

\* Ticks the separator can still count on the bar of run r.
ticks_left(r) == IF bar[r].total = 0 THEN MaxTotal - bar[r].n ELSE bar[r].total - bar[r].n

\* audio_processor.py:92: self.cancel_check and self.cancel_check(), for the bar
\* of run r: the check_cancelled closure of the shim that made the bar.
bar_cancel_check(r) ==
    bar[r].shim # "std" /\ check_cancelled(task_id[bar[r].shim])

\* audio_processor.py:98-99: a callback is there and the total is known.
bar_reports(r) == bar[r].shim # "std" /\ bar[r].total # 0

\* audio_processor.py:90-99, CustomTqdm.update(k): the cancel check, then the
\* tick is counted.  The CancellationException leaves apply_model through the
\* finally clause.  A bar made by the standard tqdm only counts.
tqdm_update(r, k) ==
    /\ pc[r] = "sep_bar"
    /\ k <= ticks_left(r)
    /\ IF bar_cancel_check(r)
       THEN /\ demucs_apply_tqdm' = restore_tqdm(r)
            /\ leave_separate_audio(r, "sep_cancelled")
            /\ UNCHANGED wasted
       ELSE /\ bar' = [bar EXCEPT ![r].n = @ + k]
            /\ pc' = [pc EXCEPT ![r] = IF bar_reports(r) THEN "sep_callback" ELSE "sep_bar"]
            /\ wasted' = count_unit(r)
            /\ UNCHANGED <<demucs_apply_tqdm, original_tqdm_val, stems>>
    /\ UNCHANGED <<PROGRESS_STORE, input_files, output_dirs, outcome, task_id, input_path,
                   file_size, cancelAt, last_cancel, detected_key,
                   progress_response, planner, detector,
                   session_state, page, download>>

\* Mutant of percentage: the ticks are not divided by the total.
percentage_unscaled(n, total) == n * 100

\* audio_processor.py:100: percentage = (self.n / self.total) * 100, and the
\* int(p) of main.py:141.
percentage(n, total) == (n * 100) \div total

\* main.py:140: the guard of update_progress.
update_progress_guard(id) ==
    id \in DOMAIN PROGRESS_STORE /\ PROGRESS_STORE[id].status # "cancelled"

\* audio_processor.py:100-101 and main.py:137-140: the callback of the bar's shim
\* is entered and its guard evaluated (in the worker thread).
progress_callback(r) ==
    /\ pc[r] = "sep_callback"
    /\ pc' = [pc EXCEPT ![r] = IF update_progress_guard(task_id[bar[r].shim])
                               THEN "sep_write" ELSE "sep_bar"]
    /\ UNCHANGED <<PROGRESS_STORE, demucs_apply_tqdm, input_files, output_dirs, outcome,
                   task_id, input_path, file_size, original_tqdm_val, bar, stems,
                   cancelAt, last_cancel,
                   detected_key, wasted, progress_response, planner, detector,
                   session_state, page, download>>

\* The store after main.py:141.
update_progress_store(id, p) == [PROGRESS_STORE EXCEPT ![id].progress = p]

\* main.py:141: PROGRESS_STORE[task_id]["progress"] = int(p); KeyError (which
\* leaves apply_model and separate_audio through the finally clause) when the
\* record went away after the guard.
progress_write(r) ==
    /\ pc[r] = "sep_write"
    /\ IF task_id[bar[r].shim] \in DOMAIN PROGRESS_STORE
       THEN /\ PROGRESS_STORE' = update_progress_store(task_id[bar[r].shim],
                                                       percentage(bar[r].n, bar[r].total))
            /\ pc' = [pc EXCEPT ![r] = "sep_bar"]
            /\ UNCHANGED <<demucs_apply_tqdm, original_tqdm_val, bar, stems>>
       ELSE /\ demucs_apply_tqdm' = restore_tqdm(r)
            /\ leave_separate_audio(r, "sep_error")
            /\ UNCHANGED PROGRESS_STORE
    /\ UNCHANGED <<input_files, output_dirs, outcome, task_id, input_path, file_size,
                   cancelAt, last_cancel,
                   detected_key, wasted, progress_response, planner, detector,
                   session_state, page, download>>

\* apply_model is done with the bar it iterated.
close_bar(r) ==
    /\ pc[r] = "sep_bar"
    /\ bar' = [bar EXCEPT ![r] = NoBar]
    /\ pc' = [pc EXCEPT ![r] = "sep_apply"]
    /\ UNCHANGED <<PROGRESS_STORE, demucs_apply_tqdm, input_files, output_dirs, outcome,
                   task_id, input_path, file_size, original_tqdm_val, stems, cancelAt, last_cancel,
                   detected_key, wasted, progress_response, planner, detector,
                   session_state, page, download>>

\* audio_processor.py:127-141: apply_model returned; the hook is put back and
\* the output directory created.
apply_model_returns(r) ==
    /\ pc[r] = "sep_apply"
    /\ demucs_apply_tqdm' = restore_tqdm(r)
    /\ original_tqdm_val' = [original_tqdm_val EXCEPT ![r] = None]
    /\ output_dirs' = output_dirs \cup {input_path[r]}
    /\ pc' = [pc EXCEPT ![r] = "sep_save"]
    /\ UNCHANGED <<PROGRESS_STORE, input_files, outcome, task_id, input_path, file_size,
                   bar, stems, cancelAt, last_cancel,
                   detected_key, wasted, progress_response, planner, detector,
                   session_state, page, download>>

\* Mutant of apply_model_raises: separate_audio swallows the error of the
\* separator and goes on to the save loop.
apply_model_raises_swallowed(r) ==
    /\ pc[r] = "sep_apply"
    /\ demucs_apply_tqdm' = restore_tqdm(r)
    /\ original_tqdm_val' = [original_tqdm_val EXCEPT ![r] = None]
    /\ pc' = [pc EXCEPT ![r] = "sep_save"]
    /\ UNCHANGED <<PROGRESS_STORE, input_files, output_dirs, outcome, task_id, input_path,
                   file_size, bar, stems, cancelAt, last_cancel,
                   detected_key, wasted, progress_response, planner, detector,
                   session_state, page, download>>

\* audio_processor.py:127, 130-133: the separator itself raises.
apply_model_raises(r) ==
    /\ pc[r] = "sep_apply"
    /\ demucs_apply_tqdm' = restore_tqdm(r)
    /\ leave_separate_audio(r, "sep_error")
    /\ UNCHANGED <<PROGRESS_STORE, input_files, output_dirs, outcome, task_id, input_path,
                   file_size, cancelAt, last_cancel,
                   detected_key, wasted, progress_response, planner, detector,
                   session_state, page, download>>

\* audio_processor.py:146-155: one pass of the save loop: the run's own cancel
\* check, then the stem is written (sf.write fails when the directory is gone).
save_stem(r) ==
    /\ pc[r] = "sep_save"
    /\ stems[r] < NumStems
    /\ IF check_cancelled(task_id[r])
       THEN leave_separate_audio(r, "sep_cancelled") /\ UNCHANGED wasted
       ELSE IF input_path[r] \notin output_dirs
            THEN leave_separate_audio(r, "sep_error") /\ UNCHANGED wasted
            ELSE /\ stems' = [stems EXCEPT ![r] = @ + 1]
                 /\ wasted' = count_unit(r)
                 /\ UNCHANGED <<pc, original_tqdm_val, bar>>
    /\ UNCHANGED <<PROGRESS_STORE, demucs_apply_tqdm, input_files, output_dirs, outcome,
                   task_id, input_path, file_size, cancelAt, last_cancel, detected_key,
                   progress_response, planner, detector,
                   session_state, page, download>>

\* audio_processor.py:154: sf.write raises (disk full, unwritable directory).
save_stem_fails(r) ==
    /\ pc[r] = "sep_save"
    /\ stems[r] < NumStems
    /\ ~check_cancelled(task_id[r])
    /\ leave_separate_audio(r, "sep_error")
    /\ UNCHANGED <<PROGRESS_STORE, demucs_apply_tqdm, input_files, output_dirs, outcome,
                   task_id, input_path, file_size, cancelAt, last_cancel,
                   detected_key, wasted, progress_response, planner, detector,
                   session_state, page, download>>

\* audio_processor.py:157-168: metadata.json is written and the stems returned
\* (open fails when the directory is gone).
save_metadata(r) ==
    /\ pc[r] = "sep_save"
    /\ stems[r] = NumStems
    /\ leave_separate_audio(r, IF input_path[r] \in output_dirs THEN "sep_ok" ELSE "sep_error")
    /\ UNCHANGED <<PROGRESS_STORE, demucs_apply_tqdm, input_files, output_dirs, outcome,
                   task_id, input_path, file_size, cancelAt, last_cancel,
                   detected_key, wasted, progress_response, planner, detector,
                   session_state, page, download>>

\* ------------------------------------------------------------ the system
\* Naming of the requests: r1 is the one that arrives first, and the names of
\* its task id and of its input file are "default" and "f1"; the later request
\* may bring the same or another id, the same or another file name.
arrives(r, id, path) ==
    IF r = "r1" THEN id = "default" /\ path = "f1" ELSE pc["r1"] # "idle"

Next ==
    \/ \E id \in TaskIds : cancel_task(id)
    \/ \E r \in Runs : arrives(r, "default", "f1") /\ reject_content_length(r)
    \/ \E r \in Runs, id \in TaskIds, path \in Paths :
          arrives(r, id, path) /\ start_task(r, id, path)
    \/ \E r \in Runs : read_chunk(r)
    \/ \E r \in Runs : read_eof(r)
    \/ \E r \in Runs : analysis_done(r)
    \/ \E r \in Runs : separate_audio_load(r)
    \/ \E r \in Runs : separate_audio_load_fails(r)
    \/ \E r \in Runs : install_shim(r)
    \/ \E r \in Runs, total \in Totals : open_bar(r, total)
    \/ \E r \in Runs, k \in 1..MaxTotal : tqdm_update(r, k)
    \/ \E r \in Runs : progress_callback(r)
    \/ \E r \in Runs : progress_write(r)
    \/ \E r \in Runs : close_bar(r)
    \/ \E r \in Runs : apply_model_returns(r)
    \/ \E r \in Runs : apply_model_raises(r)
    \/ \E r \in Runs : save_stem(r)
    \/ \E r \in Runs : save_stem_fails(r)
    \/ \E r \in Runs : save_metadata(r)
    \/ \E r \in Runs : separation_done(r)

Spec == Init /\ [][Next]_vars

\* ------------------------------------------------- the system, scheduled fairly
\* The system with a separator whose bars all have MaxTotal chunks, counted by
\* one update: the same requests, ids, files, cancels and failures.
FairNext ==
    \/ \E id \in TaskIds : cancel_task(id)
    \/ \E r \in Runs : arrives(r, "default", "f1") /\ reject_content_length(r)
    \/ \E r \in Runs, id \in TaskIds, path \in Paths :
          arrives(r, id, path) /\ start_task(r, id, path)
    \/ \E r \in Runs : read_chunk(r)
    \/ \E r \in Runs : read_eof(r)
    \/ \E r \in Runs : analysis_done(r)
    \/ \E r \in Runs : separate_audio_load(r)
    \/ \E r \in Runs : separate_audio_load_fails(r)
    \/ \E r \in Runs : install_shim(r)
    \/ \E r \in Runs : open_bar(r, MaxTotal)
    \/ \E r \in Runs : tqdm_update(r, MaxTotal)
    \/ \E r \in Runs : progress_callback(r)
    \/ \E r \in Runs : progress_write(r)
    \/ \E r \in Runs : close_bar(r)
    \/ \E r \in Runs : apply_model_returns(r)
    \/ \E r \in Runs : apply_model_raises(r)
    \/ \E r \in Runs : save_stem(r)
    \/ \E r \in Runs : save_stem_fails(r)
    \/ \E r \in Runs : save_metadata(r)
    \/ \E r \in Runs : separation_done(r)

\* A step of request r once it is registered: of its coroutine on the event
\* loop, or of its worker thread.
RunStep(r) ==
    \/ read_chunk(r) \/ read_eof(r) \/ analysis_done(r)
    \/ separate_audio_load(r) \/ separate_audio_load_fails(r) \/ install_shim(r)
    \/ open_bar(r, MaxTotal) \/ tqdm_update(r, MaxTotal)
    \/ progress_callback(r) \/ progress_write(r) \/ close_bar(r)
    \/ apply_model_returns(r) \/ apply_model_raises(r)
    \/ save_stem(r) \/ save_stem_fails(r) \/ save_metadata(r) \/ separation_done(r)

\* The event loop resumes a coroutine whose await is done and the executor runs
\* its threads: a request that can step does step (WF).  The upload ends (the
\* read loop is bounded by MAX_FILE_SIZE), and the separator finishes or raises
\* however many bars it opens (SF on leaving apply_model).
FairSpec ==
    /\ Init /\ [][FairNext]_vars
    /\ \A r \in Runs : WF_vars(RunStep(r))
    /\ \A r \in Runs : SF_vars(apply_model_returns(r) \/ apply_model_raises(r))

\* ------------------------------------------------ GET /progress on its own
\* get_progress reads the registry and answers; no handler reads what it did, so
\* it is run here against the registries the requests can leave and kept out of
\* Next.
\* The progress values a record can hold: the percentages of the ticks of a bar.
Percentages == {percentage(n, MaxTotal) : n \in 0..MaxTotal}

\* The registries the requests leave for a poll to read: records under some of
\* the ids, each registered by a request of its own.
Registries ==
    {reg \in UNION {[D -> [progress : Percentages,
                          status : {"uploading", "analyzing", "separating", "cancelled"},
                          owner : Runs]] : D \in SUBSET TaskIds} :
        \A a, b \in DOMAIN reg : a # b => reg[a].owner # reg[b].owner}

PollInit ==
    /\ PROGRESS_STORE \in Registries
    /\ demucs_apply_tqdm = "std"
    /\ input_files = {}
    /\ output_dirs = {}
    /\ pc = [r \in Runs |-> "idle"]
    /\ outcome = [r \in Runs |-> None]
    /\ task_id = [r \in Runs |-> None]
    /\ input_path = [r \in Runs |-> None]
    /\ file_size = [r \in Runs |-> 0]
    /\ original_tqdm_val = [r \in Runs |-> None]
    /\ bar = [r \in Runs |-> NoBar]
    /\ stems = [r \in Runs |-> 0]
    /\ detected_key = [r \in Runs |-> None]
    /\ wasted = [r \in Runs |-> 0]
    /\ progress_response = NoResponse
    /\ cancelAt = [r \in Runs |-> None]
    /\ last_cancel = NoCancel
    /\ planner = NoPlan
    /\ detector = NoDetection
    /\ FrontendIdle

PollNext == \E id \in TaskIds : get_progress_request(id)

PollSpec == PollInit /\ [][PollNext]_vars

\* ------------------------------------------------ mixing.py: float arithmetic
\* Python floats, scaled down: a float is a whole number of units of
\* 2^-UnitBits, and a result that is not exact is rounded to MantBits
\* significant bits, to nearest with ties to even, as binary64 rounds to 53
\* bits.  MantBits is odd like 53: the direction in which a quotient such as
\* 4/3 or 2/3 is rounded depends on that parity.  With these two values the
\* operators below return what mixing.py returns for all whole tempos 1..240.
MantBits == 15
UnitBits == 20

\* 1.0
One == 2^UnitBits

\* float('inf') (mixing.py:45): above every difference the planner computes.
Inf == 2147483647

\* float(n) for a whole number n.
ToFloat(n) == n * One

RECURSIVE BitLength(_)
BitLength(n) == IF n = 0 THEN 0 ELSE 1 + BitLength(n \div 2)

\* The float nearest to i units plus a rest below one unit; rest is 0 (none),
\* 1 (under half a unit), 2 (half a unit) or 3 (over half a unit).
Round(i, rest) ==
    LET n == BitLength(i)
    IN  IF n <= MantBits
        THEN IF rest = 3 \/ (rest = 2 /\ i % 2 = 1) THEN i + 1 ELSE i
        ELSE LET ulp == 2^(n - MantBits)
                 low == i % ulp
                 hi == i \div ulp
                 up == \/ 2 * low > ulp
                       \/ 2 * low = ulp /\ (rest # 0 \/ hi % 2 = 1)
             IN  (IF up THEN hi + 1 ELSE hi) * ulp

\* k more binary digits of a quotient q with remainder r, divisor b.
RECURSIVE LongDivision(_, _, _, _)
LongDivision(q, r, b, k) ==
    IF k = 0 THEN <<q, r>>
    ELSE IF 2 * r >= b THEN LongDivision(2 * q + 1, 2 * r - b, b, k - 1)
         ELSE LongDivision(2 * q, 2 * r, b, k - 1)

\* a / b for a >= 0, b > 0.
fdiv_pos(a, b) ==
    LET qr == LongDivision(a \div b, a % b, b, UnitBits)
        r == qr[2]
        rest == IF r = 0 THEN 0 ELSE IF 2 * r < b THEN 1 ELSE IF 2 * r = b THEN 2 ELSE 3
    IN  Round(qr[1], rest)

\* a / b for b > 0.
fdiv(a, b) == IF a >= 0 THEN fdiv_pos(a, b) ELSE 0 - fdiv_pos(0 - a, b)

\* a - b
fsub(a, b) == IF a >= b THEN Round(a - b, 0) ELSE 0 - Round(b - a, 0)

\* abs(a)
fabs(a) == IF a >= 0 THEN a ELSE 0 - a

\* a * m for a multiplier m that is a whole number or the inverse of one (the
\* planner multiplies by 0.5, 1.0 and 2.0).
fmul(a, m) ==
    IF m >= One
    THEN (IF a >= 0 THEN Round(a * (m \div One), 0) ELSE 0 - Round((0 - a) * (m \div One), 0))
    ELSE fdiv(a, ToFloat(One \div m))

\* int(a): truncation towards zero.
int(a) == IF a >= 0 THEN a \div One ELSE 0 - ((0 - a) \div One)

\* ------------------------------------------------ mixing.py: the BPM planner
\* Mutant of multipliers: the planner does not try double time.
multipliers_without_double == <<One \div 2, One>>

\* mixing.py:43: multipliers = [0.5, 1.0, 2.0]
multipliers == <<One \div 2, One, 2 * One>>

\* Mutant of no_tempo: only the source tempo is looked at.
no_tempo_source_only(source_bpm, target_bpm) == source_bpm <= 0

\* mixing.py:39 and 65: if target_bpm <= 0 or source_bpm <= 0
no_tempo(source_bpm, target_bpm) == target_bpm <= 0 \/ source_bpm <= 0

\* mixing.py:47-56: the loop over multipliers from its i-th element on, with the
\* best candidate and the smallest difference found so far.
RECURSIVE scan_multipliers(_, _, _, _, _)
scan_multipliers(source_bpm, target_bpm, i, best_target, min_diff_ratio) ==
    IF i > Len(multipliers) THEN best_target
    ELSE LET candidate == fmul(target_bpm, multipliers[i])
             ratio == fdiv(candidate, source_bpm)
             diff == fabs(fsub(ratio, One))
         IN  IF diff < min_diff_ratio
             THEN scan_multipliers(source_bpm, target_bpm, i + 1, candidate, diff)
             ELSE scan_multipliers(source_bpm, target_bpm, i + 1, best_target, min_diff_ratio)

\* mixing.py:25-58
optimize_bpm_target(source_bpm, target_bpm) ==
    IF no_tempo(source_bpm, target_bpm) THEN target_bpm
    ELSE scan_multipliers(source_bpm, target_bpm, 1, target_bpm, Inf)

\* Mutant of no_stretch_needed: only a rate of exactly 1.0 is passed through.
no_stretch_needed_exact(rate) == rate = One

\* mixing.py:72: abs(rate - 1.0) < 0.01; the literal 0.01 is the float nearest
\* to 1/100.
no_stretch_needed(rate) == fabs(fsub(rate, One)) < fdiv(ToFloat(1), ToFloat(100))

\* A file path: its directory and the parts of its name.
\* mixing.py:84-86: temp_dir / f"stretched_{int(effective_target_bpm)}_{basename}"
stretched_path(file_path, effective_target_bpm) ==
    [dir |-> "drum_extractor_pro",
     name |-> <<"stretched", int(effective_target_bpm)>> \o file_path.name]

\* mixing.py:60-91: what time_stretch_audio returns and the file it writes;
\* librosa and soundfile are taken to load, stretch and write without error.
time_stretch_audio(file_path, target_bpm, source_bpm) ==
    IF no_tempo(source_bpm, target_bpm)
    THEN [returned |-> file_path, written |-> {}]
    ELSE LET effective_target_bpm == optimize_bpm_target(source_bpm, target_bpm)
             rate == fdiv(effective_target_bpm, source_bpm)
         IN  IF no_stretch_needed(rate)
             THEN [returned |-> file_path, written |-> {}]
             ELSE [returned |-> stretched_path(file_path, effective_target_bpm),
                   written |-> {stretched_path(file_path, effective_target_bpm)}]

\* The pipeline at rest, for the specifications of the two numeric stages.
PipelineIdle ==
    /\ PROGRESS_STORE = << >>
    /\ demucs_apply_tqdm = "std"
    /\ input_files = {}
    /\ output_dirs = {}
    /\ pc = [r \in Runs |-> "idle"]
    /\ outcome = [r \in Runs |-> None]
    /\ task_id = [r \in Runs |-> None]
    /\ input_path = [r \in Runs |-> None]
    /\ file_size = [r \in Runs |-> 0]
    /\ original_tqdm_val = [r \in Runs |-> None]
    /\ bar = [r \in Runs |-> NoBar]
    /\ stems = [r \in Runs |-> 0]
    /\ detected_key = [r \in Runs |-> None]
    /\ wasted = [r \in Runs |-> 0]
    /\ progress_response = NoResponse
    /\ cancelAt = [r \in Runs |-> None]
    /\ last_cancel = NoCancel

pipeline_vars ==
    <<PROGRESS_STORE, demucs_apply_tqdm, input_files, output_dirs, pc, outcome,
      task_id, input_path, file_size, original_tqdm_val, bar, stems, detected_key,
      wasted, progress_response, cancelAt, last_cancel>>

\* The tempos the planner is called with: none (0, -1), the tempos of the
\* examples, pairs one and two thirds apart, pairs around 1% apart.
Bpms == {-1, 0, 60, 80, 90, 99, 100, 101, 120, 160, 170, 199, 200, 240}

\* The file handed to time_stretch_audio.
StemFile == [dir |-> "processed_tracks", name |-> <<"drums.wav">>]

\* A call of the planner: the arguments, then what optimize_bpm_target and
\* time_stretch_audio return for them (0 and the unset path before they ran).
PlannerInit ==
    /\ PipelineIdle
    /\ detector = NoDetection
    /\ FrontendIdle
    /\ planner \in {[step |-> "called",
                     source_bpm |-> ToFloat(s), target_bpm |-> ToFloat(t),
                     file_path |-> StemFile,
                     optimized |-> FALSE, best_target |-> 0,
                     stretched |-> FALSE, returned |-> StemFile, written |-> {}] :
                        s \in Bpms, t \in Bpms}

\* optimize_bpm_target(source_bpm, target_bpm) is called and returns.
call_optimize_bpm_target ==
    /\ planner.step = "called"
    /\ ~planner.optimized
    /\ planner' = [planner EXCEPT
                       !.optimized = TRUE,
                       !.best_target = optimize_bpm_target(planner.source_bpm, planner.target_bpm)]
    /\ UNCHANGED <<pipeline_vars, detector, session_state, page, download>>

\* time_stretch_audio(file_path, target_bpm, source_bpm) is called and returns.
call_time_stretch_audio ==
    /\ planner.step = "called"
    /\ ~planner.stretched
    /\ LET res == time_stretch_audio(planner.file_path, planner.target_bpm, planner.source_bpm)
       IN  planner' = [planner EXCEPT
                           !.stretched = TRUE,
                           !.returned = res.returned,
                           !.written = res.written]
    /\ UNCHANGED <<pipeline_vars, detector, session_state, page, download>>

PlannerNext == call_optimize_bpm_target \/ call_time_stretch_audio

PlannerSpec == PlannerInit /\ [][PlannerNext]_vars

\* ------------------------------------------ analysis.py: the key detection
\* analysis.py:91
pitch_names == <<"C", "C#", "D", "D#", "E", "F", "F#", "G", "G#", "A", "A#", "B">>

\* analysis.py:94-95, in hundredths.  A chroma profile is given in hundredths
\* too; the correlation does not depend on the unit.
major_profile == <<635, 223, 348, 233, 438, 409, 252, 519, 239, 366, 229, 288>>
minor_profile == <<633, 268, 352, 538, 260, 353, 254, 475, 398, 269, 334, 317>>

\* Number of pitch classes (the length of the profiles).
Bins == Len(pitch_names)

RECURSIVE SumTo(_, _)
SumTo(x, n) == IF n = 0 THEN 0 ELSE x[n] + SumTo(x, n - 1)

\* np.sum(x)
Sum(x) == SumTo(x, Len(x))

\* np.sum(x * y)
Dot(x, y) == Sum([k \in 1..Len(x) |-> x[k] * y[k]])

\* Mutant of roll: the profile is shifted the other way.
roll_backwards(x, shift) ==
    [k \in 1..Len(x) |-> x[((k - 1 + shift + 2 * Len(x)) % Len(x)) + 1]]

\* np.roll(x, shift): element k of the result is element k - shift of x.
roll(x, shift) ==
    [k \in 1..Len(x) |-> x[((k - 1 - shift + 2 * Len(x)) % Len(x)) + 1]]

\* analysis.py:98-100: (x - mean) / (std + 1e-6) and (p - mean) / std, kept up
\* to the positive factor: Len(x) * (x - mean).  A profile whose bins are all
\* equal becomes all zeros.
normalize(x) == [k \in 1..Len(x) |-> Len(x) * x[k] - Sum(x)]

\* A correlation score: the number cov / sqrt(vx * vy), or nan.
\* np.corrcoef(x, y)[0, 1]: the covariance over the root of the product of the
\* variances (all three times Len(x)^2); 0/0 = nan when a variance is zero.
corrcoef(x, y) ==
    LET cov == Len(x) * Dot(x, y) - Sum(x) * Sum(y)
        vx == Len(x) * Dot(x, x) - Sum(x) * Sum(x)
        vy == Len(x) * Dot(y, y) - Sum(y) * Sum(y)
    IN  [nan |-> vx = 0 \/ vy = 0, cov |-> cov, vx |-> vx, vy |-> vy]

\* The score p/q for whole numbers p and q > 0.
Score(p, q) == [nan |-> FALSE, cov |-> p, vx |-> 1, vy |-> q * q]

\* Whole numbers beyond 2^31, for comparing scores exactly: sequences of
\* digits in base LimbBase, lowest first.
LimbBase == 2048

Big(n) == <<n % LimbBase, (n \div LimbBase) % LimbBase, n \div (LimbBase * LimbBase)>>

\* Sum of the products x[i] * y[j] with i + j = k + 1.
Column(x, y, k) ==
    Sum([i \in 1..Len(x) |-> IF k + 1 - i \in 1..Len(y) THEN x[i] * y[k + 1 - i] ELSE 0])

RECURSIVE Carried(_, _, _)
Carried(columns, k, carry) ==
    IF k > Len(columns) THEN << >>
    ELSE <<(columns[k] + carry) % LimbBase>>
             \o Carried(columns, k + 1, (columns[k] + carry) \div LimbBase)

BigMul(x, y) == Carried([k \in 1..(Len(x) + Len(y)) |-> Column(x, y, k)], 1, 0)

RECURSIVE BigLessFrom(_, _, _)
BigLessFrom(x, y, k) ==
    IF k = 0 THEN FALSE
    ELSE IF x[k] # y[k] THEN x[k] < y[k] ELSE BigLessFrom(x, y, k - 1)

\* x < y for two numbers of the same length.
BigLess(x, y) == BigLessFrom(x, y, Len(x))

Abs(n) == IF n >= 0 THEN n ELSE 0 - n

\* cov^2 of score a times vx * vy of score b.
Cross(a, b) ==
    BigMul(BigMul(Big(Abs(a.cov)), Big(Abs(a.cov))), BigMul(Big(b.vx), Big(b.vy)))

\* a >= b for two scores; False when either is nan.
greater_or_equal(a, b) ==
    IF a.nan \/ b.nan THEN FALSE
    ELSE IF a.vx = b.vx /\ a.vy = b.vy THEN a.cov >= b.cov
    ELSE IF a.cov >= 0 /\ b.cov < 0 THEN TRUE
    ELSE IF a.cov < 0 /\ b.cov >= 0 THEN FALSE
    ELSE IF a.cov >= 0 THEN ~BigLess(Cross(a, b), Cross(b, a))
    ELSE ~BigLess(Cross(b, a), Cross(a, b))

\* a > b for two scores (analysis.py:113, 117); False when either is nan.
\* Scores over the same variances compare as their covariances do; otherwise
\* cov_a / sqrt(va) > cov_b / sqrt(vb) is decided by the signs and the squares.
greater(a, b) ==
    IF a.nan \/ b.nan THEN FALSE
    ELSE IF a.vx = b.vx /\ a.vy = b.vy THEN a.cov > b.cov
    ELSE IF a.cov >= 0 /\ b.cov < 0 THEN TRUE
    ELSE IF a.cov < 0 /\ b.cov >= 0 THEN FALSE
    ELSE IF a.cov >= 0 THEN BigLess(Cross(b, a), Cross(a, b))
    ELSE BigLess(Cross(a, b), Cross(b, a))

\* The label f"{pitch_names[i]} Major" / f"{pitch_names[i]} Minor" for i in 0..11.
key_label(i, mode) == <<pitch_names[i + 1], mode>>

\* analysis.py:103: best_key = "Unknown"
Unknown == <<"Unknown">>

\* analysis.py:109, 112 for every i: the scores of the 12 major and the 12
\* minor keys, indexed 1..12 for the roots 0..11.
correlations(chroma_vals, profile) ==
    [k \in 1..Bins |-> corrcoef(roll(normalize(chroma_vals), 0 - (k - 1)), normalize(profile))]

\* Mutant of scan_keys: the comparisons are >= instead of >, the last of the
\* highest scores wins.
RECURSIVE scan_keys_last_wins(_, _, _, _, _)
scan_keys_last_wins(corr_major, corr_minor, i, max_corr, best_key) ==
    IF i = Bins THEN best_key
    ELSE LET major_wins == greater_or_equal(corr_major[i + 1], max_corr)
             max_1 == IF major_wins THEN corr_major[i + 1] ELSE max_corr
             key_1 == IF major_wins THEN key_label(i, "Major") ELSE best_key
             minor_wins == greater_or_equal(corr_minor[i + 1], max_1)
             max_2 == IF minor_wins THEN corr_minor[i + 1] ELSE max_1
             key_2 == IF minor_wins THEN key_label(i, "Minor") ELSE key_1
         IN  scan_keys_last_wins(corr_major, corr_minor, i + 1, max_2, key_2)

\* analysis.py:106-121: the loop from root i on, with max_corr and best_key so far.
RECURSIVE scan_keys(_, _, _, _, _)
scan_keys(corr_major, corr_minor, i, max_corr, best_key) ==
    IF i = Bins THEN best_key
    ELSE LET major_wins == greater(corr_major[i + 1], max_corr)
             max_1 == IF major_wins THEN corr_major[i + 1] ELSE max_corr
             key_1 == IF major_wins THEN key_label(i, "Major") ELSE best_key
             minor_wins == greater(corr_minor[i + 1], max_1)
             max_2 == IF minor_wins THEN corr_minor[i + 1] ELSE max_1
             key_2 == IF minor_wins THEN key_label(i, "Minor") ELSE key_1
         IN  scan_keys(corr_major, corr_minor, i + 1, max_2, key_2)

\* analysis.py:102-123: max_corr = -1.0, best_key = "Unknown", the loop, the
\* returned key.
detect_key(corr_major, corr_minor) ==
    scan_keys(corr_major, corr_minor, 0, Score(-1, 1), Unknown)

\* The chroma profiles the detector is run on: each template at each of the 12
\* rotations, profiles whose bins are all equal (silence, a flat spectrum), and
\* a single sounding pitch class.
Chromas ==
    {roll(major_profile, r) : r \in 0..(Bins - 1)}
        \cup {roll(minor_profile, r) : r \in 0..(Bins - 1)}
        \cup {[k \in 1..Bins |-> 0], [k \in 1..Bins |-> 50]}
        \cup {[k \in 1..Bins |-> IF k = p THEN 100 ELSE 0] : p \in 1..Bins}

\* The scores the scan is run on as such, in scan order (root 0 major, root 0
\* minor, root 1 major, ...): -1/2 everywhere but at one or two places, which
\* hold 0, 1/2 or 1.
ScoreLevels == {Score(0, 2), Score(1, 2), Score(2, 2)}
ScoreVectors ==
    {[k \in 1..(2 * Bins) |-> IF k = p THEN a ELSE IF k = q THEN b ELSE Score(-1, 2)] :
        p \in 1..(2 * Bins), q \in 1..(2 * Bins), a \in ScoreLevels, b \in ScoreLevels}

NoScores == << >>
NoKey == << >>

\* A key detection: from the chroma profile of analysis.py:84, or from the 24
\* scores of the loop.
DetectorInit ==
    /\ PipelineIdle
    /\ planner = NoPlan
    /\ FrontendIdle
    /\ detector \in
           {[step |-> "chroma", chroma_vals |-> c, corr_major |-> NoScores,
             corr_minor |-> NoScores, best_key |-> NoKey] : c \in Chromas}
           \cup
           {[step |-> "scores", chroma_vals |-> << >>,
             corr_major |-> [i \in 1..Bins |-> v[2 * i - 1]],
             corr_minor |-> [i \in 1..Bins |-> v[2 * i]],
             best_key |-> NoKey] : v \in ScoreVectors}

\* analysis.py:98-100, 109, 112: the profile is normalised and correlated with
\* the 24 rotated templates (the scores do not depend on the comparisons of the
\* loop, so they are computed first).
correlate ==
    /\ detector.step = "chroma"
    /\ detector' = [detector EXCEPT
                        !.step = "scores",
                        !.corr_major = correlations(detector.chroma_vals, major_profile),
                        !.corr_minor = correlations(detector.chroma_vals, minor_profile)]
    /\ UNCHANGED <<pipeline_vars, planner, session_state, page, download>>

\* analysis.py:102-123: the scan over the scores, and the key returned.
scan ==
    /\ detector.step = "scores"
    /\ detector' = [detector EXCEPT
                        !.step = "done",
                        !.best_key = detect_key(detector.corr_major, detector.corr_minor)]
    /\ UNCHANGED <<pipeline_vars, planner, session_state, page, download>>

DetectorNext == correlate \/ scan

DetectorSpec == DetectorInit /\ [][DetectorNext]_vars

\* ------------------------------------------------ app.py: the Streamlit page
\* The names of the files a user uploads.  A result kept in st.session_state or
\* rendered on the page is written as the name of the upload it was computed
\* from.
Uploads == {"a.wav", "b.wav", "c.wav"}

\* app.py:127-134: the four keys the script sets when they are missing.
session_defaults(ss) ==
    [ss EXCEPT
        !.processed_drums = IF @ = Absent THEN None ELSE @,
        !.analysis_results = IF @ = Absent THEN None ELSE @,
        !.current_mix = IF @ = Absent THEN None ELSE @,
        !.input_filename = IF @ = Absent THEN "" ELSE @]

\* app.py:136-146: save_uploaded_file returns temp_inputs/<name of the upload>.
save_uploaded_file(uploaded_file) == uploaded_file

\* app.py:168-177: the reset for an upload whose name is not the stored one.
new_file(ss, uploaded_file) ==
    IF uploaded_file # ss.input_filename
    THEN [ss EXCEPT
             !.input_filename = uploaded_file,
             !.processed_drums = None,
             !.analysis_results = None,
             !.current_mix = None,
             !.local_path = save_uploaded_file(uploaded_file)]
    ELSE ss

\* What separate_audio and analyze_track do in a run of the script.
Processings == {"ok", "separation raises", "analysis raises"}

\* app.py:181-212: the processing of a file without stems; the results are kept
\* as far as the processing gets.
process(ss, processing) ==
    IF ss.processed_drums # None
    THEN ss
    ELSE CASE processing = "separation raises" -> ss
           [] processing = "analysis raises" ->
                  [ss EXCEPT !.stems = ss.local_path, !.processed_drums = ss.local_path]
           [] processing = "ok" ->
                  [ss EXCEPT !.stems = ss.local_path, !.processed_drums = ss.local_path,
                             !.analysis_results = ss.local_path]

\* app.py:214-216: the except clause shows the error and stops the script.
stopped(ss, processing) == ss.processed_drums = None /\ processing # "ok"

\* app.py:250-331: the Load Player button; the player HTML embeds the mix of
\* st.session_state.stems and is kept under 'active_player_html'.
load_player(ss, pressed, active_stems) ==
    IF pressed /\ active_stems # {}
    THEN [ss EXCEPT !.active_player_html = ss.stems]
    ELSE ss

\* app.py:240-248: the stems the user can tick (two of the four).
StemNames == {"drums", "bass"}

\* app.py:127-134, 157-364, one run of the script: the session state it leaves and the
\* page it renders.
run_script(ss0, uploaded_file, pressed, active_stems, processing) ==
    LET ss1 == session_defaults(ss0)
        ss2 == new_file(ss1, uploaded_file)
        ss3 == process(ss2, processing)
        ss4 == load_player(ss3, pressed, active_stems)
        blank == [NoPage EXCEPT !.uploaded_file = uploaded_file]
    IN  CASE uploaded_file = None ->
                 [state |-> ss1, page |-> blank]
          [] uploaded_file # None /\ stopped(ss2, processing) ->
                 [state |-> ss3, page |-> [blank EXCEPT !.error = "Error during processing"]]
          [] uploaded_file # None /\ ~stopped(ss2, processing)
                 /\ ss3.analysis_results = None ->
                 [state |-> ss3, page |-> [blank EXCEPT !.error = "TypeError"]]
          [] OTHER ->
                 [state |-> ss4,
                  page |-> [blank EXCEPT
                               !.key = ss4.analysis_results,
                               !.player = IF ss4.active_player_html # Absent
                                          THEN ss4.active_player_html ELSE None,
                               !.downloads = ss4.stems]]

\* The button is pressed on a page that shows it, and the press reruns the
\* script with the upload of that page.
can_press(uploaded_file) == page.downloads # None /\ uploaded_file = page.uploaded_file

\* A rerun of the script in the browser session.
main(uploaded_file, pressed, active_stems, processing) ==
    /\ pressed => can_press(uploaded_file)
    /\ LET run == run_script(session_state, uploaded_file, pressed, active_stems, processing)
       IN  /\ session_state' = run.state
           /\ page' = run.page
    /\ UNCHANGED <<pipeline_vars, planner, detector, download>>

AppInit ==
    /\ PipelineIdle
    /\ planner = NoPlan
    /\ detector = NoDetection
    /\ FrontendIdle

AppNext ==
    \E uploaded_file \in Uploads \cup {None}, pressed \in BOOLEAN,
       active_stems \in SUBSET StemNames, processing \in Processings :
        main(uploaded_file, pressed, active_stems, processing)

AppSpec == AppInit /\ [][AppNext]_vars

\* ------------------------------------------------ main.py: GET /download
\* The characters of the query values: the separator, the dot, and two letters;
\* the letter p is the name of the output directory (processed_tracks).
Chars == {"/", ".", "a", "p"}
\* Longest query value.
MaxQueryLen == 3
QueryValues == UNION {[1..n -> Chars] : n \in 0..MaxQueryLen}

\* main.py:244: ".." in value.
has_dotdot(value) == \E i \in 1..(Len(value) - 1) : value[i] = "." /\ value[i + 1] = "."

\* pathlib: the components of a path string, without the empty ones and the
\* "." ones; name is the component being read from position i on.
RECURSIVE parts_from(_, _, _)
parts_from(value, i, name) ==
    LET component == IF name \in {<< >>, <<".">>} THEN << >> ELSE <<name>>
    IN  IF i > Len(value) THEN component
        ELSE IF value[i] = "/" THEN component \o parts_from(value, i + 1, << >>)
        ELSE parts_from(value, i + 1, Append(name, value[i]))

\* pathlib: Path(value).
Path(value) ==
    [absolute |-> Len(value) > 0 /\ value[1] = "/", parts |-> parts_from(value, 1, << >>)]

\* pathlib: a / b; an absolute b replaces a.
joinpath(a, b) ==
    IF b.absolute THEN b ELSE [absolute |-> a.absolute, parts |-> a.parts \o b.parts]

\* main.py:26: OUTPUT_DIR = Path("processed_tracks"), relative to the working
\* directory of the server, here /a.
OUTPUT_DIR == Path(<<"p">>)
Cwd == << <<"a">> >>

\* The place in the filesystem a path names.
resolve(path) == IF path.absolute THEN path.parts ELSE Cwd \o path.parts

\* The filesystem: the stem /a/p/a/a of a processed track, and two files
\* outside the output directory, /p and /a/a.
Files ==
    {<< <<"a">>, <<"p">>, <<"a">>, <<"a">> >>, << <<"p">> >>, << <<"a">>, <<"a">> >>}
Dirs ==
    {<< >>, << <<"a">> >>, << <<"a">>, <<"p">> >>, << <<"a">>, <<"p">>, <<"a">> >>}

\* pathlib: path.exists().
exists(path) == resolve(path) \in Files \cup Dirs

\* main.py:237-257: GET /download?track=..&file=..; FileResponse answers 500 for
\* a path that is not a regular file.
download_file(track, file) ==
    /\ download.step = "called"
    /\ track = download.track
    /\ file = download.file
    /\ LET file_path == joinpath(joinpath(OUTPUT_DIR, Path(track)), Path(file))
           status == IF has_dotdot(track) \/ has_dotdot(file) THEN 400
                     ELSE IF ~exists(file_path) THEN 404
                     ELSE IF resolve(file_path) \in Dirs THEN 500
                     ELSE 200
       IN  download' = [step |-> "done", track |-> track, file |-> file, status |-> status,
                        path |-> IF status = 200 THEN resolve(file_path) ELSE None]
    /\ UNCHANGED <<pipeline_vars, planner, detector, session_state, page>>

\* A request: its query values, then the answer of download_file.
DownloadInit ==
    /\ PipelineIdle
    /\ planner = NoPlan
    /\ detector = NoDetection
    /\ session_state = NoSession
    /\ page = NoPage
    /\ download \in {[NoDownload EXCEPT !.step = "called", !.track = track, !.file = file] :
                        track \in QueryValues, file \in QueryValues}

DownloadNext ==
    \E track \in {download.track}, file \in {download.file} : download_file(track, file)

DownloadSpec == DownloadInit /\ [][DownloadNext]_vars

\* ================================================================ claims
\* The answers of /separate that are the cancelled outcome (499), by the message
\* of the CancellationException that led there.
CancelledOutcomes ==
    {"Cancelled during upload", "Cancelled after upload", "Cancelled after analysis",
     "Task cancelled by user"}

\* The record under id is the same task in both states of a step: present before
\* and after, registered by the same run.
SameTask(id) ==
    /\ id \in DOMAIN PROGRESS_STORE
    /\ id \in DOMAIN PROGRESS_STORE'
    /\ PROGRESS_STORE'[id].owner = PROGRESS_STORE[id].owner

\* Run r answers in this step.
Answers(r) == pc[r] # "done" /\ pc'[r] = "done"

\* Run r is the only request so far.
Alone(r) == \A q \in Runs \ {r} : pc[q] = "idle"

\* Run r takes a step of its own in this step (start_task excluded).
StepsOn(r) ==
    /\ pc[r] # "idle"
    /\ <<pc[r], bar[r], stems[r], file_size[r], original_tqdm_val[r]>>
         # <<pc'[r], bar'[r], stems'[r], file_size'[r], original_tqdm_val'[r]>>

\* C1: once a cancel request has set a task's status to Cancelled, no progress
\* report changes the task: its record stays as it was when the cancel took
\* effect, as long as the task is in the registry.
C1_CancelWinsOverProgress ==
    [][\A id \in TaskIds :
          (SameTask(id) /\ PROGRESS_STORE[id].status = "cancelled")
              => PROGRESS_STORE'[id] = PROGRESS_STORE[id]]_vars

\* C2: while a task is not terminal, the progress GetProgress shows for it never
\* decreases from one state to the next.
C2_ProgressNeverDecreases ==
    [][\A id \in TaskIds :
          (SameTask(id) /\ PROGRESS_STORE[id].status \in {"uploading", "analyzing", "separating"})
              => get_progress(id)'.progress >= get_progress(id).progress]_vars

\* C3: a task whose status an accepted cancel request set to Cancelled never
\* answers with the success result.
C3_CancelledNeverCompletes ==
    \A r \in Runs : outcome[r] = "success" => cancelAt[r] = None

\* C4: a request that runs alone, whose task was cancelled while its status was
\* Separating and in which nothing fails, answers with the cancelled outcome and
\* leaves no registry entry, no input file and no output directory of the task.
C4_CancelWhileSeparating ==
    [][\A r \in Runs :
          (Answers(r) /\ Alone(r) /\ cancelAt[r] = "separating" /\ outcome'[r] # "500")
              => /\ outcome'[r] \in CancelledOutcomes
                 /\ task_id[r] \notin DOMAIN PROGRESS_STORE'
                 /\ input_path[r] \notin input_files'
                 /\ input_path[r] \notin output_dirs']_vars

\* C5: when a request that runs alone ends Failed (413 during upload, 500) or
\* Cancelled, its input file and output directory are gone and its task is out
\* of the registry.
C5_FailedAndCancelledCleanUp ==
    [][\A r \in Runs :
          (Answers(r) /\ Alone(r) /\ outcome'[r] \in CancelledOutcomes \cup {"413", "500"})
              => /\ task_id[r] \notin DOMAIN PROGRESS_STORE'
                 /\ input_path[r] \notin input_files'
                 /\ input_path[r] \notin output_dirs']_vars

C7_AnswerTellsEffect ==
    last_cancel # NoCancel =>
        (last_cancel.answer = "Cancellation requested"
            <=> last_cancel.found \in {"uploading", "analyzing", "separating"})

\* C7 amended: a cancel request is answered "Cancellation requested" exactly when
\* its id has a record, also when that record is already Cancelled, and "Task not
\* found" otherwise; after it the record, if any, is Cancelled; a request that
\* finds the record Cancelled leaves the registry as it is.
C7_CancelAnswer ==
    [][last_cancel' # last_cancel =>
          /\ last_cancel'.answer =
                 IF last_cancel'.found = "absent" THEN "Task not found"
                 ELSE "Cancellation requested"
          /\ \A id \in DOMAIN PROGRESS_STORE :
                 /\ id \in DOMAIN PROGRESS_STORE'
                 /\ PROGRESS_STORE'[id].status \in {PROGRESS_STORE[id].status, "cancelled"}
          /\ last_cancel'.found # "absent" =>
                 \E id \in DOMAIN PROGRESS_STORE' : PROGRESS_STORE'[id].status = "cancelled"
          /\ last_cancel'.found \in {"cancelled", "absent"} =>
                 PROGRESS_STORE' = PROGRESS_STORE]_vars

\* C7 witness: the last cancel request found its task already Cancelled, was
\* answered, and the task is still Cancelled.
C7_Witness ==
    /\ last_cancel.found = "cancelled"
    /\ \E id \in DOMAIN PROGRESS_STORE : PROGRESS_STORE[id].status = "cancelled"

\* C8: a step of a run (other than registering its own task) leaves every
\* record that another run registered in the registry and unchanged.
C8_OnlyOwnerMutates ==
    [][\A r \in Runs : \A id \in DOMAIN PROGRESS_STORE :
          (StepsOn(r) /\ PROGRESS_STORE[id].owner # r)
              => /\ id \in DOMAIN PROGRESS_STORE'
                 /\ PROGRESS_STORE'[id] = PROGRESS_STORE[id]]_vars

\* C9: a progress tick of a run's separator is checked and reported with the
\* callbacks of that run's own task.
C9_TicksStayWithTheirTask ==
    \A r \in Runs :
        (pc[r] \in {"sep_callback", "sep_write"}) => task_id[bar[r].shim] = task_id[r]

\* C10: when the upload finishes (or analysis finishes) for a task whose status
\* is Cancelled, the run answers with the cancelled outcome of that checkpoint
\* and starts no further stage; and no step turns the Cancelled status of a task
\* into another status.
C10_StageCheckpoints ==
    [][/\ \A r \in Runs :
            LET cancelled == /\ task_id[r] \in DOMAIN PROGRESS_STORE
                             /\ PROGRESS_STORE[task_id[r]].status = "cancelled"
            IN /\ (read_eof(r) /\ cancelled)
                      => pc'[r] = "done" /\ outcome'[r] = "Cancelled after upload"
               /\ (analysis_done(r) /\ cancelled)
                      => pc'[r] = "done" /\ outcome'[r] = "Cancelled after analysis"
       /\ \A id \in TaskIds :
            (SameTask(id) /\ PROGRESS_STORE[id].status = "cancelled")
                => PROGRESS_STORE'[id].status = "cancelled"]_vars

\* C10 witness: one run took the cancellation path at the end of its upload, the
\* other at the end of its analysis.
C10_Witness ==
    /\ outcome["r1"] = "Cancelled after upload"
    /\ outcome["r2"] = "Cancelled after analysis"

\* C11: after a cancel request has taken effect on a task, the run does at most
\* one more unit of work of its stage: at most one more upload chunk written,
\* separator tick counted or stem written while its record says cancelled.
C11_BoundedWastedWork ==
    \A r \in Runs : wasted[r] <= 1

\* C12: under fair scheduling, with an upload, analysis and separator that each
\* finish or raise, every task id that is in the registry is eventually absent
\* from it again, whichever way the run ends.
C12_EveryTaskLeavesTheRegistry ==
    \A id \in TaskIds :
        (id \in DOMAIN PROGRESS_STORE) ~> (id \notin DOMAIN PROGRESS_STORE)

\* C12 witness: two registered tasks went their way, one to success and one to
\* the cancelled answer, and the registry is empty again.
C12_Witness ==
    /\ outcome["r1"] = "success"
    /\ outcome["r2"] = "Task cancelled by user"
    /\ task_id["r2"] = "t1"
    /\ DOMAIN PROGRESS_STORE = {}

\* The statuses the endpoint stores, and the steps of a status along the
\* pipeline: Uploading -> Analyzing -> Separating, and Cancelled from any of them.
StoredStatuses == {"uploading", "analyzing", "separating", "cancelled"}
StatusTransitions ==
    {<<"uploading", "analyzing">>, <<"analyzing", "separating">>}
        \cup {<<s, "cancelled">> : s \in {"uploading", "analyzing", "separating"}}

\* C13: the status stored for a task is one of the declared statuses, and while
\* the record of one run is in the registry its status changes only along
\* Uploading -> Analyzing -> Separating or to Cancelled: never backwards, never
\* past Analyzing.
C13_StatusFollowsTheTransitions ==
    [][\A id \in TaskIds :
          /\ id \in DOMAIN PROGRESS_STORE' => PROGRESS_STORE'[id].status \in StoredStatuses
          /\ (SameTask(id) /\ PROGRESS_STORE'[id].status # PROGRESS_STORE[id].status)
                => <<PROGRESS_STORE[id].status, PROGRESS_STORE'[id].status>>
                       \in StatusTransitions]_vars

\* C14: when the analysis of a task that is in the registry and not cancelled
\* ends, by returning or by raising, the task goes on to Separating and nothing
\* is answered; when the analysis raised, the key kept for the task is "Unknown",
\* and the success answer reports the key kept at the analysis.
C14_AnalysisFailureIsSwallowed ==
    [][\A r \in Runs :
          /\ (/\ analysis_done(r)
              /\ task_id[r] \in DOMAIN PROGRESS_STORE
              /\ PROGRESS_STORE[task_id[r]].status # "cancelled")
                => /\ pc'[r] = "sep_load"
                   /\ PROGRESS_STORE'[task_id[r]].status = "separating"
                   /\ outcome'[r] = None
                   /\ detected_key'[r] \in {"Key", "Unknown"}
                   /\ (input_path[r] \notin input_files \/ input_path[r] \in Unreadable)
                         => detected_key'[r] = "Unknown"
          /\ (Answers(r) /\ outcome'[r] = "success")
                => detected_key'[r] = detected_key[r] /\ detected_key[r] # None]_vars

\* C14 witness: a request brought a file the analysis cannot read, and its
\* separation succeeded with the key "Unknown".
C14_Witness ==
    /\ outcome["r2"] = "success"
    /\ input_path["r2"] \in Unreadable
    /\ detected_key["r2"] = "Unknown"

C16_ReportForAbsentTaskIsIgnored ==
    [][\A r \in Runs :
          LET absent == task_id[bar[r].shim] \notin DOMAIN PROGRESS_STORE
          IN /\ (progress_callback(r) /\ absent)
                   => pc'[r] = "sep_bar" /\ PROGRESS_STORE' = PROGRESS_STORE
             /\ (progress_write(r) /\ absent)
                   => pc'[r] = "sep_bar" /\ PROGRESS_STORE' = PROGRESS_STORE]_vars

\* C17: at every separator tick of a run whose task is cancelled at that moment,
\* the cancel check comes first: the tick is not counted and nothing is reported,
\* the separation is left with the Cancelled signal, and from there the run only
\* answers (no later tick, no report, no stem).
C17_CancelCheckBeforeTheTick ==
    [][\A r \in Runs :
          /\ ((\E k \in 1..MaxTotal : tqdm_update(r, k)) /\ check_cancelled(task_id[r]))
                => /\ pc'[r] = "sep_cancelled"
                   /\ bar'[r] = NoBar
                   /\ PROGRESS_STORE' = PROGRESS_STORE
          /\ (pc[r] = "sep_cancelled" /\ StepsOn(r))
                => /\ pc'[r] = "done"
                   /\ outcome'[r] = "Task cancelled by user"
                   /\ stems'[r] = 0]_vars

C19_SeparatorErrorPropagates ==
    [][\A r \in Runs :
          /\ apply_model_raises(r)
                => /\ pc'[r] = "sep_error"
                   /\ bar'[r] = NoBar
                   /\ PROGRESS_STORE' = PROGRESS_STORE
          /\ (pc[r] = "sep_error" /\ StepsOn(r))
                => /\ pc'[r] = "done"
                   /\ outcome'[r] = "500"
                   /\ task_id[r] \notin DOMAIN PROGRESS_STORE'
                   /\ \A id \in TaskIds : SameTask(id) => PROGRESS_STORE'[id] = PROGRESS_STORE[id]
         ]_vars

\* C19 witness: the separator of the only request raised after half of the
\* ticks of a bar had been reported (no output directory yet).
C19_Witness ==
    /\ pc["r1"] = "sep_error"
    /\ pc["r2"] = "idle"
    /\ "default" \in DOMAIN PROGRESS_STORE
    /\ PROGRESS_STORE["default"].progress = 50
    /\ "f1" \notin output_dirs

\* C20: GET /progress for an id that is not in the registry answers
\* {progress: 0, status: pending}, for an id that is there the record's progress
\* and status; and no GET /progress changes the registry.
C20_GetProgressOnlyReads ==
    [][/\ PROGRESS_STORE' = PROGRESS_STORE
       /\ LET id == progress_response'.id
          IN IF id \in DOMAIN PROGRESS_STORE
             THEN /\ progress_response'.progress = PROGRESS_STORE[id].progress
                  /\ progress_response'.status = PROGRESS_STORE[id].status
             ELSE /\ progress_response'.progress = 0
                  /\ progress_response'.status = "pending"
                  /\ id \notin DOMAIN PROGRESS_STORE']_vars

\* C20 witness: with another task registered, a poll for the id "t1", which the
\* registry does not hold, was answered with the default shape.
C20_Witness ==
    /\ DOMAIN PROGRESS_STORE = {"default"}
    /\ progress_response = [id |-> "t1", progress |-> 0, status |-> "pending"]

\* C21: registering a task under an id that already has a record replaces the
\* record with a clean one of the registering request: progress 0 and status
\* "uploading", whatever the old record held.
C21_RegisterReplacesTheRecord ==
    [][\A r \in Runs :
          (pc[r] = "idle" /\ pc'[r] = "reading" /\ task_id'[r] \in DOMAIN PROGRESS_STORE)
              => /\ task_id'[r] \in DOMAIN PROGRESS_STORE'
                 /\ PROGRESS_STORE'[task_id'[r]] =
                        [progress |-> 0, status |-> "uploading", owner |-> r]]_vars

\* C21 witness: the second request registered under the id of the first one,
\* whose record a cancel had hit and which is still on its way: the record now
\* is the clean one of the second request.
C21_Witness ==
    /\ task_id["r2"] = task_id["r1"]
    /\ pc["r1"] \notin {"idle", "done"}
    /\ cancelAt["r1"] # None
    /\ pc["r2"] = "reading"
    /\ file_size["r2"] = 0
    /\ task_id["r2"] \in DOMAIN PROGRESS_STORE
    /\ PROGRESS_STORE[task_id["r2"]] = [progress |-> 0, status |-> "uploading", owner |-> "r2"]

\* The CancellationException of run r reaches the handler of the endpoint in
\* this step: raised by the worker thread, or by a checkpoint of the coroutine
\* that finds the task cancelled (the 413 of the upload loop comes before it).
CancellationHandled(r) ==
    \/ pc[r] = "sep_cancelled" /\ pc'[r] # "sep_cancelled"
    \/ /\ pc[r] \in {"reading", "analyzing"}
       /\ check_cancelled(task_id[r])
       /\ Answers(r)
       /\ outcome'[r] # "413"

\* C22: the cancellation cleanup never raises: whether or not the record, the
\* input file and the output directory are still there, and whether or not a
\* deletion fails, the request ends with the cancelled outcome and the task is
\* not in the registry afterwards.
C22_CancellationCleanupNeverRaises ==
    [][\A r \in Runs :
          CancellationHandled(r)
              => /\ pc'[r] = "done"
                 /\ outcome'[r] \in CancelledOutcomes
                 /\ task_id[r] \notin DOMAIN PROGRESS_STORE']_vars

\* C22 witness: the only request was cancelled in the separator, the deletion
\* of its input file failed, and it ended with the cancelled outcome and no
\* record.
C22_Witness ==
    /\ pc["r2"] = "idle"
    /\ pc["r1"] = "done"
    /\ outcome["r1"] = "Task cancelled by user"
    /\ input_path["r1"] \in input_files
    /\ PROGRESS_STORE = << >>

\* The positions of a running pipeline: waiting for an upload chunk, the
\* analysis running, the separation running, the stems being written.
HeavyStages ==
    {"reading", "analyzing", "sep_load", "sep_install", "sep_apply", "sep_bar",
     "sep_callback", "sep_write", "sep_save"}

\* C23: in every state of a running pipeline a progress poll and a cancel
\* request for its task can be served, the poll answering with what the
\* registry holds; and a cancel request served for a task in the registry sets
\* its status to cancelled in that step, with every pipeline where it was.
C23_PollAndCancelNeverBlocked ==
    /\ [](\A r \in Runs :
             pc[r] \in HeavyStages
                 => /\ ENABLED cancel_task(task_id[r])
                    /\ ENABLED (/\ get_progress_request(task_id[r])
                                /\ progress_response'.id = task_id[r]
                                /\ progress_response'.status = get_progress(task_id[r]).status))
    /\ [][\A id \in TaskIds :
             (cancel_task(id) /\ id \in DOMAIN PROGRESS_STORE)
                 => /\ PROGRESS_STORE'[id].status = "cancelled"
                    /\ pc' = pc]_vars

\* C23 witness: a cancel request was served while the separator of the task was
\* half way through its bar; the record says cancelled and the separator is
\* still running.
C23_Witness ==
    /\ pc["r1"] = "sep_bar"
    /\ bar["r1"].n = 1
    /\ bar["r1"].total = MaxTotal
    /\ cancelAt["r1"] = "separating"
    /\ task_id["r1"] \in DOMAIN PROGRESS_STORE
    /\ PROGRESS_STORE[task_id["r1"]].status = "cancelled"
    /\ PROGRESS_STORE[task_id["r1"]].owner = "r1"

\* The planner was called with two tempos above zero.
BothTempos == planner.source_bpm > 0 /\ planner.target_bpm > 0

\* The requested target at half time, as it is, and at double time.
Candidates == <<planner.target_bpm \div 2, planner.target_bpm, 2 * planner.target_bpm>>

\* |candidate/source - 1| * source: the distance of a candidate from the source
\* tempo, exactly.
Distance(candidate) ==
    IF candidate >= planner.source_bpm THEN candidate - planner.source_bpm
    ELSE planner.source_bpm - candidate

\* C24: for tempos above zero optimize_bpm_target returns one of 0.5, 1 and 2
\* times the requested target, and none of the three is closer to the source
\* tempo; for source 170 and target 90 it returns 180.
C24_PlannerReturnsAClosestCandidate ==
    (planner.optimized /\ BothTempos)
        => /\ \E i \in 1..3 :
                /\ planner.best_target = Candidates[i]
                /\ \A j \in 1..3 : Distance(Candidates[i]) <= Distance(Candidates[j])
           /\ (planner.source_bpm = ToFloat(170) /\ planner.target_bpm = ToFloat(90))
                  => planner.best_target = ToFloat(180)

\* C24 witness: the planner was asked for 90 against a source of 170 and
\* returned 180.
C24_Witness ==
    /\ planner.optimized
    /\ planner.source_bpm = ToFloat(170)
    /\ planner.target_bpm = ToFloat(90)
    /\ planner.best_target = ToFloat(180)

\* C25: with a source or a requested tempo of zero or less, optimize_bpm_target
\* returns the requested target as it is, and time_stretch_audio returns the
\* path it was given and writes no file.
C25_NoTempoNoPlanning ==
    (planner.source_bpm <= 0 \/ planner.target_bpm <= 0)
        => /\ planner.optimized => planner.best_target = planner.target_bpm
           /\ planner.stretched
                  => planner.returned = planner.file_path /\ planner.written = {}

\* C25 witness: both functions ran for a source of 120 and a target of -1.
C25_Witness ==
    /\ planner.optimized
    /\ planner.stretched
    /\ planner.source_bpm = ToFloat(120)
    /\ planner.target_bpm = ToFloat(-1)
    /\ planner.best_target = ToFloat(-1)
    /\ planner.returned = StemFile

\* A tempo in halves of a beat per minute (every tempo here is a whole number
\* of halves).
Halves(bpm) == bpm \div (One \div 2)

\* |effective/source - 1| < 0.01, exactly.
WithinOnePercent(effective, source_bpm) ==
    IF effective >= source_bpm
    THEN 100 * (Halves(effective) - Halves(source_bpm)) < Halves(source_bpm)
    ELSE 100 * (Halves(source_bpm) - Halves(effective)) < Halves(source_bpm)

\* C26: with tempos above zero, time_stretch_audio returns the path it was
\* given and writes no file exactly when the planner's result is less than 1%
\* away from the source tempo; so it does when the requested target is the
\* source tempo, half of it or double of it.
C26_PassthroughWithinOnePercent ==
    (planner.stretched /\ BothTempos)
        => /\ (planner.returned = planner.file_path /\ planner.written = {})
                  <=> WithinOnePercent(optimize_bpm_target(planner.source_bpm, planner.target_bpm),
                                       planner.source_bpm)
           /\ planner.returned # planner.file_path => planner.written = {planner.returned}
           /\ (\/ planner.target_bpm = planner.source_bpm
               \/ 2 * planner.target_bpm = planner.source_bpm
               \/ planner.target_bpm = 2 * planner.source_bpm)
                  => planner.returned = planner.file_path

\* C26 witness: a target of half the source tempo was passed through.
C26_Witness ==
    /\ planner.stretched
    /\ planner.source_bpm = ToFloat(120)
    /\ planner.target_bpm = ToFloat(60)
    /\ planner.returned = StemFile
    /\ planner.written = {}

\* The candidates closest to the source tempo, by their place in the scan order.
Closest == {i \in 1..3 : \A j \in 1..3 : Distance(Candidates[i]) <= Distance(Candidates[j])}

\* C30: when two of the candidates 0.5, 1.0 and 2.0 times the requested target
\* are equally close to the source tempo and no candidate is closer,
\* optimize_bpm_target returns the one that comes first in that order.
C30_PlannerTieGoesToTheFirst ==
    (planner.optimized /\ BothTempos /\ Cardinality(Closest) > 1)
        => planner.best_target = Candidates[CHOOSE i \in Closest : \A j \in Closest : i <= j]

\* A template circularly rotated by r pitch classes: bin k of the result is bin
\* k - r of the template.
Rotated(template, r) == [k \in 1..12 |-> template[((k - 1 - r + 12) % 12) + 1]]

\* C27: for a chroma profile that is the major template rotated by r pitch
\* classes the detector returns "{pitch_names[r]} Major", and for the minor
\* template rotated by r "{pitch_names[r]} Minor"; the major template as it is
\* gives "C Major", the minor template rotated by 3 gives "D# Minor".
C27_TemplateRecovery ==
    detector.step = "done"
        => /\ \A r \in 0..11 :
                /\ detector.chroma_vals = Rotated(major_profile, r)
                       => detector.best_key = <<pitch_names[r + 1], "Major">>
                /\ detector.chroma_vals = Rotated(minor_profile, r)
                       => detector.best_key = <<pitch_names[r + 1], "Minor">>
           /\ detector.chroma_vals = major_profile => detector.best_key = <<"C", "Major">>
           /\ detector.chroma_vals = Rotated(minor_profile, 3)
                  => detector.best_key = <<"D#", "Minor">>

\* C27 witness: the minor template rotated by 3 was detected as D# Minor.
C27_Witness ==
    /\ detector.step = "done"
    /\ detector.chroma_vals = Rotated(minor_profile, 3)
    /\ detector.best_key = <<"D#", "Minor">>

\* The 24 labels.
KeyLabels == {<<pitch_names[i], mode>> : i \in 1..12, mode \in {"Major", "Minor"}}

\* C28: the scan never returns "Unknown": for every chroma profile, one whose
\* bins are all equal included, the key returned is one of the 24 labels.
C28_NeverUnknown ==
    detector.step = "done" => detector.best_key \in KeyLabels

\* The 24 scores of a detection in scan order: root 0 major, root 0 minor,
\* root 1 major, ...
InScanOrder(k) ==
    IF k % 2 = 1 THEN detector.corr_major[(k + 1) \div 2] ELSE detector.corr_minor[k \div 2]

\* The k-th combination of the scan order attains the maximum score.
AttainsMaximum(k) == \A j \in 1..24 : ~greater(InScanOrder(j), InScanOrder(k))

\* C29: when the 24 scores are numbers, the key returned is the label of the
\* first combination, in the order root 0..11 with major before minor at each
\* root, whose score is the maximum.
C29_FirstMaximumWins ==
    (detector.step = "done" /\ \A k \in 1..24 : ~InScanOrder(k).nan)
        => \E k \in 1..24 :
              /\ AttainsMaximum(k)
              /\ \A j \in 1..(k - 1) : ~AttainsMaximum(j)
              /\ detector.best_key =
                     <<pitch_names[(k + 1) \div 2], IF k % 2 = 1 THEN "Major" ELSE "Minor">>

\* C29 witness: the major and the minor score of root 2 are both the maximum,
\* and the key returned is D Major.
C29_Witness ==
    /\ detector.step = "done"
    /\ detector.chroma_vals = << >>
    /\ detector.corr_major[3] = Score(2, 2)
    /\ detector.corr_minor[3] = Score(2, 2)
    /\ detector.best_key = <<"D", "Major">>

\* The bar of run r counts a tick in this step, or its update raises.
Ticks(r) ==
    /\ pc[r] = "sep_bar"
    /\ pc'[r] # "sep_apply"
    /\ <<pc[r], bar[r]>> # <<pc'[r], bar'[r]>>

\* C31: at a tick of a run's bar without a known total (total 0), the cancel
\* check of the run's task is made first (a cancelled task raises the
\* cancellation), and otherwise the tick is counted without a progress report:
\* the registry is left as it is and no callback is entered.
C31_UnknownTotalReportsNothing ==
    [][\A r \in Runs :
          (Ticks(r) /\ bar[r].total = 0)
              => IF check_cancelled(task_id[r])
                 THEN pc'[r] = "sep_cancelled"
                 ELSE /\ PROGRESS_STORE' = PROGRESS_STORE
                      /\ pc'[r] = "sep_bar"
                      /\ bar'[r].n > bar[r].n]_vars

\* C32: whenever no invocation of separate_audio is between saving the hook and
\* putting it back, demucs.apply.tqdm holds the standard tqdm it held before
\* the first invocation.
C32_HookRestored ==
    (\A r \in Runs : original_tqdm_val[r] = None) => demucs_apply_tqdm = "std"

\* Run q is still running, or has completed its separation.
RunningOrCompleted(q) ==
    pc[q] \in HeavyStages \/ (pc[q] = "done" /\ outcome[q] = "success")

\* C33: the cleanup of a cancelled run leaves in place the input file and the
\* output directory of every other run that is still running or has completed.
C33_CleanupKeepsOtherArtifacts ==
    [][\A r \in Runs : \A q \in Runs \ {r} :
          (CancellationHandled(r) /\ RunningOrCompleted(q))
              => /\ input_path[q] \in input_files => input_path[q] \in input_files'
                 /\ input_path[q] \in output_dirs => input_path[q] \in output_dirs']_vars

\* C34: a request answered 413 for its declared Content-Length, before anything
\* else was done for it, leaves the registry, the input files and the output
\* directories as they are, whatever the other run is doing.
C34_RejectionChangesNothing ==
    [][\A r \in Runs :
          (pc[r] = "idle" /\ pc'[r] = "done")
              => /\ outcome'[r] = "413 content-length"
                 /\ PROGRESS_STORE' = PROGRESS_STORE
                 /\ input_files' = input_files
                 /\ output_dirs' = output_dirs]_vars

C34_Witness ==
    /\ pc["r2"] = "done"
    /\ outcome["r2"] = "413 content-length"
    /\ pc["r1"] = "sep_bar"
    /\ "default" \in DOMAIN PROGRESS_STORE
    /\ PROGRESS_STORE["default"].owner = "r1"
    /\ "f1" \in input_files

\* C35: every result the page shows for an upload (the detected key, the
\* player, the stems offered for download) was computed from that upload.
C35_PageShowsTheUploadedFile ==
    page.uploaded_file # None
        => /\ page.key \in {None, page.uploaded_file}
           /\ page.player \in {None, page.uploaded_file}
           /\ page.downloads \in {None, page.uploaded_file}

\* The path lies inside the output directory.
Inside(path) ==
    LET root == resolve(OUTPUT_DIR)
    IN  Len(path) > Len(root) /\ SubSeq(path, 1, Len(root)) = root

\* C36: a file served by /download lies inside the output directory.
C36_DownloadConfined ==
    download.status = 200 => Inside(download.path)

====
